---- MODULE Spec2Model ----
(***************************************************************************)
(* Model of the Chatwoot bridge: BotWrapper (the dispatch queue, the bot   *)
(* listeners, the outbound feature-flag check) and ChatwootClient (the     *)
(* shared request queue, contact / conversation resolution under the       *)
(* per-phone lock, message relay).                                         *)
(*                                                                         *)
(* An "op" is one event handled by the bridge or one direct call of        *)
(* ChatwootClient.sendNotes or sendMessageWithAttachments:                 *)
(*   kind "in"     a provider "message" event  -> processIncomingMessage   *)
(*   kind "out"    a bot "send_message" event  -> processOutgoingMessage   *)
(*   kind "direct" a call made by a user of the client, not queued         *)
(* Each await of the source is one position (pc) of the op; the code that  *)
(* runs between two awaits is one atomic step, as on the JS event loop.    *)
(*                                                                         *)
(* The remote CRM is the environment: it keeps one contact per phone       *)
(* number (a second create for the number is rejected), answers lookups    *)
(* from its current state, and any request may fail (MaxFaults).  It lists *)
(* the conversations of a contact oldest first, each with its messages; a  *)
(* conversation has none until a message creation for it succeeded.        *)
(***************************************************************************)
EXTENDS Integers, Sequences, FiniteSets, TLC

\* ---------------------------------------------------------------- bounds
\* Phone numbers known to the model.
NumPhones == 1
\* Events the bot delivers to the bridge in one run.
MaxOps == 2
\* Direct calls of sendNotes in one run of the client on its own.
MaxCalls == 3
\* Requests and downloads that fail in one run.
MaxFaults == 1
\* Direct calls of sendMessageWithAttachments in one run of the client on
\* its own, and file URLs in one such call.
MaxAttachCalls == 1
MaxFiles == 3

Phones == 1..NumPhones
OpIds == 1..(MaxOps + MaxCalls)

\* ------------------------------------------------------------- constants
\* CHATWOOT_INBOX_ID of the deployment, and an inbox that is not it.
InboxID == 1
OtherInbox == 2
\* No op / no contact / no conversation (JS false).
None == 0
\* The id under which initialize's checkAndCreateAttribute uses the queue.
InitOp == -1

VARIABLES
  initPc,     \* BotWrapper.initialize: "new", "refused", "isAttributeCreated",
              \* "createAttributes", "done"
  ops,        \* the ops so far, in the order their events arrived
  dq,         \* BotWrapper.queue: pending tasks (op ids), oldest first
  running,    \* the task BotWrapper.queue has in flight, or None
  rq,         \* ChatwootClient.queue: pending requests (op ids), oldest first
  inflight,   \* the request ChatwootClient.queue has in flight, or None
  locks,      \* ChatwootClient.locks
  contacts,   \* remote: phone -> "none" | "unset" | "On" | "Off"
  convs,      \* remote: phone -> conversations of the contact, oldest first
  attrDefined,\* remote: the funciones_del_bot attribute definition exists
  blacklist,  \* botInstance.dynamicBlacklist
  lastStatus, \* status of the last webhook response, 0 before the first
  faults,     \* requests that failed so far for a reason of the remote's
  hist        \* history: requests issued, lock owner, last start and webhook

vars == <<initPc, ops, dq, running, rq, inflight, locks, contacts, convs,
          attrDefined, blacklist, lastStatus, faults, hist>>

remote == <<contacts, convs, attrDefined>>

\* ------------------------------------------------------------ pure parts
\* getUserID: the id of the first contact the search returns, or false.
\* The contact of phone p has id p.
GetUserID(contact, p) == IF contact = "none" THEN None ELSE p

\* getAttributes: false when there is no contact or the flag is not set,
\* otherwise the flag as a string.
GetAttributes(contact) ==
  IF contact = "none" THEN "false"
  ELSE IF contact = "unset" THEN "false"
  ELSE contact

\* getConversationID, line 130: data.payload[0]?.messages, the messages of
\* the first conversation the remote lists for the contact.  Each message
\* carries the inbox_id and conversation_id of its conversation; a
\* conversation nothing was posted to yet has none.
Messages(payload) ==
  IF Len(payload) = 0 \/ ~payload[1].hasMessages THEN <<>>
  ELSE <<[inbox_id |-> payload[1].inbox_id,
          conversation_id |-> payload[1].conversation_id]>>

\* lines 131-138 on those messages: false for none, an error when none is
\* of the configured inbox, otherwise the conversation_id of the first one
\* of the configured inbox.
FirstOfInbox(entries) ==
  LET idx == {i \in 1..Len(entries) : entries[i].inbox_id = InboxID}
  IN  IF idx = {} THEN None
      ELSE entries[CHOOSE i \in idx : \A j \in idx : i <= j].conversation_id

GetConversationID(payload) ==
  LET entries == Messages(payload)
  IN  IF Len(entries) = 0 THEN [kind |-> "false", id |-> None]
      ELSE IF FirstOfInbox(entries) = None
        THEN [kind |-> "throw", id |-> None]
        ELSE [kind |-> "id", id |-> FirstOfInbox(entries)]

\* The remote after a message was created in conversation id.
WithMessage(cs, id) ==
  [p \in DOMAIN cs |->
     [i \in DOMAIN cs[p] |->
        IF cs[p][i].conversation_id = id
          THEN [cs[p][i] EXCEPT !.hasMessages = TRUE]
          ELSE cs[p][i]]]

\* sendNotes, line 271: is the per-phone lock taken?
LockHeldNever(p) == FALSE
LockHeld(p) == locks[p]

\* BotWrapper.queue, concurrent: 1: a task may start only when none runs.
CanStartAlways == TRUE

CanStart == running = None

\* BotWrapper.queue hands out its tasks oldest first.
NextIndexNewest(q) == Len(q)
NextIndex(q) == 1

Remove(q, i) == SubSeq(q, 1, i - 1) \o SubSeq(q, i + 1, Len(q))

\* processOutgoingMessage, lines 162-168: when is the number removed from
\* the blacklist?
ShouldRemoveIgnoringFlag(flag, inSnap) == inSnap
ShouldRemoveIgnoringSnapshot(flag, inSnap) == flag = "On"
ShouldRemove(flag, inSnap) == flag = "On" /\ inSnap

\* How an error thrown inside sendNotes / sendMessageWithAttachments ends
\* the op: the queued handlers catch and log it, a direct caller gets the
\* rejection.
ThrowResult(kind) == IF kind = "direct" THEN "rejected" ELSE "failed"

\* The id the remote gives the next conversation it creates.
NewConvId == NumPhones + hist.created + 1

\* ------------------------------------------------------------------ ops
NewOp(k, p, m) ==
  [kind |-> k, phone |-> p, media |-> m, pc |-> "queued",
   userID |-> None, putID |-> None, conv |-> None,
   \* fileUrls has `files' entries; exts: for each file downloaded so far,
   \* whether its content-type gave an extension; atts: the form's
   \* attachments, as indices into fileUrls
   files |-> IF m THEN 1 ELSE 0, exts |-> <<>>, atts |-> <<>>,
   flag |-> "unread", inSnap |-> FALSE,
   result |-> "none",
   \* history of the op
   sawNew |-> FALSE, removed |-> FALSE, relayed |-> FALSE,
   createReqs |-> 0, msgReqs |-> 0, posted |-> None, waited |-> FALSE,
   lookup |-> "none"]

Ended(o) == ops[o].pc = "end"
IsTask(o) == ops[o].kind \in {"in", "out"}
Live == 1..Len(ops)

\* One step of op o: its record becomes r; enq says whether the step ends by
\* calling _request (the op joins ChatwootClient.queue).  A task that ends
\* frees BotWrapper.queue; a request that was answered frees the request queue.
Step(o, r, enq) ==
  /\ ops' = [ops EXCEPT ![o] = r]
  /\ rq' = IF enq THEN Append(rq, o) ELSE rq
  /\ running' = IF r.pc = "end" /\ running = o THEN None ELSE running
  /\ inflight' = IF inflight = o THEN None ELSE inflight

End(r, res) == [r EXCEPT !.pc = "end", !.result = res]
ThrowAndRequeue(r) == [r EXCEPT !.pc = "queued"]
Throw(r) == End(r, ThrowResult(r.kind))

\* The answer of the remote to the request in flight: ok, or a failure of
\* the remote's own (network, 5xx), of which the model allows MaxFaults.
Answer(ok) ==
  /\ ok \/ faults < MaxFaults
  /\ faults' = IF ok THEN faults ELSE faults + 1

\* --------------------------------------------------------------- initial
InitConvs(p) == {<<>>,
                 <<[inbox_id |-> OtherInbox, conversation_id |-> p,
                    hasMessages |-> TRUE]>>,
                 <<[inbox_id |-> InboxID, conversation_id |-> p,
                    hasMessages |-> TRUE]>>}

Init ==
  /\ initPc = "new"
  /\ ops = <<>>
  /\ dq = <<>>
  /\ running = None
  /\ rq = <<>>
  /\ inflight = None
  /\ locks = [p \in Phones |-> FALSE]
  /\ contacts \in [Phones -> {"none", "unset"}]
  /\ convs \in {c \in [Phones -> UNION {InitConvs(p) : p \in Phones}] :
                  \A p \in Phones : /\ c[p] \in InitConvs(p)
                                    /\ contacts[p] = "none" => c[p] = <<>>}
  /\ attrDefined \in BOOLEAN
  /\ blacklist \in SUBSET Phones
  /\ lastStatus = 0
  /\ faults = 0
  /\ hist = [contactReqs |-> [p \in Phones |-> 0],
             convReqs |-> [p \in Phones |-> 0],
             created |-> 0,
             owner |-> [p \in Phones |-> None],
             agentThrew |-> FALSE,
             config |-> "none"]

\* ------------------------------------------------- BotWrapper: lifecycle
\* The configuration keys, and the two objects a host passes in the model:
\* the empty one and one that gives every key.
ConfigKeys ==
  {"CHATWOOT_URL", "CHATWOOT_ID", "CHATWOOT_INBOX_ID",
   "CHATWOOT_API_ACCESS_TOKEN"}

Configs == {{}, ConfigKeys}

\* createDashboard spreads the caller's object over four empty-string
\* defaults: the keys of the object it hands to initialize.
DashboardOptions(chatwootEnvs) == ConfigKeys \cup chatwootEnvs

\* initialize's test Object.keys(_options).length === 0.
OptionsEmpty(options) == Cardinality(options) = 0

\* initialize(bot, options).  Empty options: a warning, nothing else.
\* Otherwise: client, listeners, server, and then checkAndCreateAttribute,
\* whose first request joins the request queue.  given: what the host
\* passed, kept as history.
Initialize(options, given) ==
  /\ initPc \in {"new", "refused"}
  /\ IF OptionsEmpty(options)
       THEN initPc' = "refused" /\ rq' = rq
       ELSE initPc' = "isAttributeCreated" /\ rq' = Append(rq, InitOp)
  /\ hist' = [hist EXCEPT !.config = IF given = {} THEN "empty" ELSE "given"]
  /\ UNCHANGED <<ops, dq, running, inflight, locks, remote, blacklist,
                 lastStatus, faults>>

\* The host calls BotWrapper.initialize(bot, config) itself.
InitializeDirect == \E given \in Configs : Initialize(given, given)

\* The host calls createDashboard(config, bot).
CreateDashboard ==
  \E given \in Configs : Initialize(DashboardOptions(given), given)

Initialized == initPc \notin {"new", "refused"}

\* checkAndCreateAttribute after isAttributeCreated answered; errors are
\* caught and logged.
RespIsAttributeCreated ==
  /\ inflight = InitOp /\ initPc = "isAttributeCreated"
  /\ \E ok \in BOOLEAN :
       /\ Answer(ok)
       /\ IF ok /\ ~attrDefined
            THEN initPc' = "createAttributes" /\ rq' = Append(rq, InitOp)
            ELSE initPc' = "done" /\ rq' = rq
  /\ inflight' = None
  /\ UNCHANGED <<ops, dq, running, locks, remote, blacklist, lastStatus,
                 hist>>

RespCreateAttributes ==
  /\ inflight = InitOp /\ initPc = "createAttributes"
  /\ \E ok \in BOOLEAN :
       /\ Answer(ok)
       /\ attrDefined' = (attrDefined \/ ok)
  /\ initPc' = "done"
  /\ inflight' = None
  /\ UNCHANGED <<ops, dq, running, rq, locks, contacts, convs, blacklist,
                 lastStatus, hist>>

\* handleAgentEvent: emit("agent_event", body) runs the listeners the host
\* application registered; threw: one of them throws.  The try/catch logs
\* the error, so the call ends normally either way.
HandleAgentEventUncaught(threw) == IF threw THEN "thrown" ELSE "emitted"

HandleAgentEvent(threw) == IF threw THEN "logged" ELSE "emitted"

\* The route handler: the response line is reached unless the call before
\* it throws, in which case the framework answers 500.
WebhookStatus(handled) == IF handled = "thrown" THEN 500 ELSE 200

\* POST /webhook-endpoint, with any body.
Webhook ==
  /\ Initialized
  /\ \E threw \in BOOLEAN :
       /\ lastStatus' = WebhookStatus(HandleAgentEvent(threw))
       /\ hist' = [hist EXCEPT !.agentThrew = threw]
  /\ UNCHANGED <<initPc, ops, dq, running, rq, inflight, locks, remote,
                 blacklist, faults>>

\* ---------------------------------------------------- BotWrapper: events
\* provider "message" -> handleMessage -> "message_para_chatwoot_user" ->
\* queue.enqueue(processIncomingMessage).  m: the body carries "_event_".
ProviderMessage(p, m) ==
  /\ Initialized
  /\ Len(ops) < MaxOps
  /\ ops' = Append(ops, NewOp("in", p, m))
  /\ dq' = Append(dq, Len(ops) + 1)
  /\ UNCHANGED <<initPc, running, rq, inflight, locks, remote, blacklist,
                 lastStatus, faults, hist>>

\* bot "send_message" -> handleSendMessage -> "send_message_Bot" ->
\* queue.enqueue(processOutgoingMessage).  m: ctxMessage.options.media is set.
BotSendMessage(p, m) ==
  /\ Initialized
  /\ Len(ops) < MaxOps
  /\ ops' = Append(ops, NewOp("out", p, m))
  /\ dq' = Append(dq, Len(ops) + 1)
  /\ UNCHANGED <<initPc, running, rq, inflight, locks, remote, blacklist,
                 lastStatus, faults, hist>>

\* BotWrapper.queue starts its next task.  processIncomingMessage calls
\* sendMessageWithAttachments or sendNotes, processOutgoingMessage first
\* calls getAttributes; each starts with a contact search request.
FirstPc(k, m) ==
  IF k = "out" THEN "oGetAttributes"
  ELSE IF m THEN "aGetUserID" ELSE "getUserID"

StartTask ==
  /\ dq # <<>>
  /\ CanStart
  /\ LET o == dq[NextIndex(dq)]
         r == ops[o]
     IN  /\ dq' = Remove(dq, NextIndex(dq))
         /\ running' = o
         /\ ops' = [ops EXCEPT ![o] =
                      [r EXCEPT !.pc = FirstPc(r.kind, r.media),
                                !.relayed = (r.kind = "in")]]
         /\ rq' = Append(rq, o)
  /\ UNCHANGED <<initPc, inflight, locks, remote, blacklist, lastStatus,
                 faults, hist>>

\* A user of the client calls sendMessageWithAttachments itself, with n
\* file URLs.
DirectSendMessageWithAttachments(p, n) ==
  /\ Len(ops) < MaxAttachCalls
  /\ ops' = Append(ops, [NewOp("direct", p, n > 0) EXCEPT
                           !.pc = "aGetUserID", !.files = n,
                           !.relayed = TRUE])
  /\ rq' = Append(rq, Len(ops) + 1)
  /\ UNCHANGED <<initPc, dq, running, inflight, locks, remote, blacklist,
                 lastStatus, faults, hist>>

\* A user of the client calls sendNotes itself, whatever else is going on.
DirectSendNotes(p) ==
  /\ Len(ops) < MaxCalls
  /\ ops' = Append(ops, [NewOp("direct", p, FALSE) EXCEPT
                           !.pc = "getUserID", !.relayed = TRUE])
  /\ rq' = Append(rq, Len(ops) + 1)
  /\ UNCHANGED <<initPc, dq, running, inflight, locks, remote, blacklist,
                 lastStatus, faults, hist>>

\* ------------------------------------------- ChatwootClient: request queue
\* ChatwootClient.queue, concurrent: 1: the oldest pending request is sent
\* when none is in flight.
RequestIndexNewest(q) == Len(q)

RequestIndex(q) == 1

IssueRequest ==
  /\ rq # <<>>
  /\ inflight = None
  /\ inflight' = rq[RequestIndex(rq)]
  /\ rq' = Remove(rq, RequestIndex(rq))
  /\ UNCHANGED <<initPc, ops, dq, running, locks, remote, blacklist,
                 lastStatus, faults, hist>>

\* Frames of the steps of an op.
local == <<initPc, dq, lastStatus>>

At(o, pc) == o \in Live /\ ops[o].pc = pc
Answered(o, pc) == inflight = o /\ At(o, pc)

\* ---------------------------------------------- ChatwootClient.sendNotes
\* line 251: userID = await getUserID(userPhone); a new number goes on to
\* createContact, a known one to getConversationID.
RespGetUserID(o) ==
  /\ Answered(o, "getUserID")
  /\ LET r == ops[o]
         p == r.phone
         uid == GetUserID(contacts[p], p)
     IN  \E ok \in BOOLEAN :
           /\ Answer(ok)
           /\ IF ~ok THEN Step(o, Throw(r), FALSE) /\ hist' = hist
              ELSE IF uid = None
                THEN /\ Step(o, [r EXCEPT !.sawNew = TRUE,
                                          !.pc = "createContact"], TRUE)
                     /\ hist' = [hist EXCEPT !.contactReqs[p] = @ + 1]
                ELSE /\ Step(o, [r EXCEPT !.userID = uid,
                                          !.pc = "getConversationID"], TRUE)
                     /\ hist' = hist
  /\ UNCHANGED <<local, locks, remote, blacklist>>

\* line 253: userID = await createContact(name, userPhone).  The remote
\* rejects a second contact for a number it already has.
RespCreateContact(o) ==
  /\ Answered(o, "createContact")
  /\ LET r == ops[o]
         p == r.phone
     IN  \E ok \in BOOLEAN :
           /\ Answer(ok)
           /\ IF ok /\ contacts[p] = "none"
                THEN /\ contacts' = [contacts EXCEPT ![p] = "unset"]
                     /\ Step(o, [r EXCEPT !.userID = p, !.pc = "sleep"], FALSE)
                ELSE /\ contacts' = contacts
                     /\ Step(o, Throw(r), FALSE)
  /\ UNCHANGED <<local, locks, convs, attrDefined, blacklist, hist>>

\* lines 254-255: the 100 ms pause is over, getAttributes is requested.
AfterCreatePause(o) ==
  /\ At(o, "sleep")
  /\ Step(o, [ops[o] EXCEPT !.pc = "getAttributes"], TRUE)
  /\ UNCHANGED <<local, locks, remote, blacklist, faults, hist>>

\* line 256, if (!getAttributes): the flag read found no value.
FlagMissingNever(v) == FALSE

FlagMissing(v) == v = "false"

\* lines 255-266: the flag of the new contact; unset, it is set to "On".
RespGetAttributes(o) ==
  /\ Answered(o, "getAttributes")
  /\ LET r == ops[o]
     IN  \E ok \in BOOLEAN :
           /\ Answer(ok)
           /\ IF ~ok THEN Step(o, Throw(r), FALSE)
              ELSE IF FlagMissing(GetAttributes(contacts[r.phone]))
                THEN Step(o, [r EXCEPT !.pc = "setGetUserID"], TRUE)
                ELSE Step(o, [r EXCEPT !.pc = "getConversationID"], TRUE)
  /\ UNCHANGED <<local, locks, remote, blacklist, hist>>

\* setAttributes, line 116: its own getUserID.
RespSetGetUserID(o) ==
  /\ Answered(o, "setGetUserID")
  /\ LET r == ops[o]
     IN  \E ok \in BOOLEAN :
           /\ Answer(ok)
           /\ IF ~ok THEN Step(o, Throw(r), FALSE)
              ELSE Step(o, [r EXCEPT
                              !.putID = GetUserID(contacts[r.phone], r.phone),
                              !.pc = "setPut"], TRUE)
  /\ UNCHANGED <<local, locks, remote, blacklist, hist>>

\* setAttributes, lines 117-121: PUT custom_attributes.funciones_del_bot.
RespSetPut(o) ==
  /\ Answered(o, "setPut")
  /\ LET r == ops[o]
     IN  \E ok \in BOOLEAN :
           /\ Answer(ok)
           /\ IF ok /\ r.putID # None
                THEN /\ contacts' = [contacts EXCEPT ![r.putID] = "On"]
                     /\ Step(o, [r EXCEPT !.pc = "getConversationID"], TRUE)
                ELSE /\ contacts' = contacts
                     /\ Step(o, Throw(r), FALSE)
  /\ UNCHANGED <<local, locks, convs, attrDefined, blacklist, hist>>

\* lines 268-281: the conversation lookup.  Found: post to it.  Not found:
\* wait if the lock is taken, otherwise take it and create the conversation.
RespGetConversationID(o) ==
  /\ Answered(o, "getConversationID")
  /\ LET r == ops[o]
         p == r.phone
         g == GetConversationID(convs[r.userID])
     IN  \E ok \in BOOLEAN :
           /\ Answer(ok)
           /\ IF ~ok
                THEN /\ Step(o, Throw(r), FALSE)
                     /\ UNCHANGED <<locks, hist>>
              ELSE IF g.kind = "throw"
                THEN /\ Step(o, Throw([r EXCEPT !.lookup = g.kind]), FALSE)
                     /\ UNCHANGED <<locks, hist>>
              ELSE IF g.kind = "id"
                THEN /\ Step(o, [r EXCEPT !.conv = g.id, !.pc = "postMessage",
                                          !.msgReqs = @ + 1,
                                          !.lookup = g.kind], TRUE)
                     /\ UNCHANGED <<locks, hist>>
              ELSE IF LockHeld(p)
                THEN /\ Step(o, [r EXCEPT !.pc = "waitLock",
                                          !.waited = TRUE,
                                          !.lookup = g.kind], FALSE)
                     /\ UNCHANGED <<locks, hist>>
                ELSE /\ locks' = [locks EXCEPT ![p] = TRUE]
                     /\ hist' = [hist EXCEPT !.owner[p] = o,
                                             !.convReqs[p] = @ + 1]
                     /\ Step(o, [r EXCEPT !.pc = "createNewConversation",
                                          !.createReqs = @ + 1,
                                          !.lookup = g.kind], TRUE)
  /\ UNCHANGED <<local, remote, blacklist>>

\* lines 272-275: the poll finds the lock released; the lookup is redone.
\* (A poll that finds it taken changes nothing.)
LockReleasedSeen(o) ==
  /\ At(o, "waitLock")
  /\ ~LockHeld(ops[o].phone)
  /\ Step(o, [ops[o] EXCEPT !.pc = "getConversationID2"], TRUE)
  /\ UNCHANGED <<local, locks, remote, blacklist, faults, hist>>

\* line 275 and on: whatever the second lookup returned is the conversation.
RespGetConversationID2(o) ==
  /\ Answered(o, "getConversationID2")
  /\ LET r == ops[o]
         g == GetConversationID(convs[r.userID])
     IN  \E ok \in BOOLEAN :
           /\ Answer(ok)
           /\ IF ~ok \/ g.kind = "throw"
                THEN Step(o, Throw(r), FALSE)
                ELSE Step(o, [r EXCEPT !.conv = g.id, !.pc = "postMessage",
                                       !.msgReqs = @ + 1], TRUE)
  /\ UNCHANGED <<local, locks, remote, blacklist, hist>>

\* lines 280-281: createNewConversation answered; the lock is released on
\* the line after the await, which an error skips.
RespCreateNewConversation(o) ==
  /\ Answered(o, "createNewConversation")
  /\ LET r == ops[o]
         p == r.phone
     IN  \E ok \in BOOLEAN :
           /\ Answer(ok)
           /\ IF ok
                THEN /\ convs' = [convs EXCEPT ![r.userID] =
                            Append(@, [inbox_id |-> InboxID,
                                       conversation_id |-> NewConvId,
                                       hasMessages |-> FALSE])]
                     /\ hist' = [hist EXCEPT !.created = @ + 1]
                     /\ locks' = [locks EXCEPT ![p] = FALSE]
                     /\ Step(o, [r EXCEPT !.conv = NewConvId,
                                          !.pc = "postMessage",
                                          !.msgReqs = @ + 1], TRUE)
                ELSE /\ Step(o, Throw(r), FALSE)
                     /\ UNCHANGED <<convs, hist, locks>>
  /\ UNCHANGED <<local, contacts, attrDefined, blacklist>>

\* lines 285-294: the message-creation request answered.  The remote has no
\* conversation "false".
RespPostMessage(o) ==
  /\ Answered(o, "postMessage")
  /\ LET r == ops[o]
     IN  \E ok \in BOOLEAN :
           /\ Answer(ok)
           /\ IF ok /\ r.conv # None
                THEN /\ convs' = WithMessage(convs, r.conv)
                     /\ Step(o, End([r EXCEPT !.posted = r.conv], "ok"),
                             FALSE)
                ELSE /\ convs' = convs
                     /\ Step(o, Throw(r), FALSE)
  /\ UNCHANGED <<local, locks, contacts, attrDefined, blacklist, hist>>

\* ------------------------------ ChatwootClient.sendMessageWithAttachments
\* lines 351-358: the form after file i, whose extension was found (ext) or
\* not.
AttachOrDropAll(atts, i, ext) == IF ext THEN Append(atts, i) ELSE <<>>

Attach(atts, i, ext) == IF ext THEN Append(atts, i) ELSE atts

\* The for loop of lines 344-359: another file to download, or the loop is
\* over and the message-creation request is made.
AfterFiles(r) ==
  IF Len(r.exts) < r.files
    THEN [r EXCEPT !.pc = "download"]
    ELSE [r EXCEPT !.pc = "aPostMessage", !.msgReqs = @ + 1]

\* line 335: userID = await getUserID(userPhone), used as it is.
RespAGetUserID(o) ==
  /\ Answered(o, "aGetUserID")
  /\ LET r == ops[o]
     IN  \E ok \in BOOLEAN :
           /\ Answer(ok)
           /\ IF ~ok THEN Step(o, Throw(r), FALSE)
              ELSE Step(o, [r EXCEPT
                              !.userID = GetUserID(contacts[r.phone], r.phone),
                              !.pc = "aGetConversationID"], TRUE)
  /\ UNCHANGED <<local, locks, remote, blacklist, hist>>

\* line 336: conversation_id = await getConversationID(userID).  The remote
\* has no contact "false".
RespAGetConversationID(o) ==
  /\ Answered(o, "aGetConversationID")
  /\ LET r == ops[o]
     IN  \E ok \in BOOLEAN :
           /\ Answer(ok)
           /\ IF ~ok \/ r.userID = None
                THEN Step(o, Throw(r), FALSE)
              ELSE IF GetConversationID(convs[r.userID]).kind = "throw"
                THEN Step(o, Throw(r), FALSE)
                ELSE Step(o, AfterFiles([r EXCEPT !.conv =
                                  GetConversationID(convs[r.userID]).id]),
                          r.files = 0)
  /\ UNCHANGED <<local, locks, remote, blacklist, hist>>

\* lines 344-358, one turn of the loop: the file is downloaded (not through
\* the request queue); with an extension for its content-type it is
\* attached, without one it is skipped.  After the last file the
\* message-creation request is made.
Download(o) ==
  /\ At(o, "download")
  /\ LET r == ops[o]
         i == Len(r.exts) + 1
     IN  \E ok \in BOOLEAN, ext \in BOOLEAN :
           /\ Answer(ok)
           /\ IF ~ok THEN Step(o, Throw(r), FALSE)
              ELSE Step(o, AfterFiles([r EXCEPT
                                         !.exts = Append(@, ext),
                                         !.atts = Attach(@, i, ext)]),
                        i = r.files)
  /\ UNCHANGED <<local, locks, remote, blacklist, hist>>

RespAPostMessage(o) ==
  /\ Answered(o, "aPostMessage")
  /\ LET r == ops[o]
     IN  \E ok \in BOOLEAN :
           /\ Answer(ok)
           /\ IF ok /\ r.conv # None
                THEN /\ convs' = WithMessage(convs, r.conv)
                     /\ Step(o, End([r EXCEPT !.posted = r.conv], "ok"),
                             FALSE)
                ELSE /\ convs' = convs
                     /\ Step(o, Throw(r), FALSE)
  /\ UNCHANGED <<local, locks, contacts, attrDefined, blacklist, hist>>

\* ------------------------------------- BotWrapper.processOutgoingMessage
\* The relay of an outbound reply begins: sendMessageWithAttachments when the
\* reply has media, sendNotes otherwise.
BeginRelay(r) ==
  [r EXCEPT !.pc = IF r.media THEN "aGetUserID" ELSE "getUserID",
            !.relayed = TRUE]

\* line 158: the value getAttributes(numberOrId) gives task o, from the
\* contact as the remote has it now.
ReadFlagReused(o) ==
  LET earlier == {a \in 1..(o - 1) : /\ ops[a].kind = "out"
                                     /\ ops[a].phone = ops[o].phone
                                     /\ ops[a].flag # "unread"}
  IN  IF earlier = {} THEN GetAttributes(contacts[ops[o].phone])
      ELSE ops[CHOOSE a \in earlier : \A b \in earlier : b <= a].flag

ReadFlag(o) == GetAttributes(contacts[ops[o].phone])

\* line 158: getAttributes(numberOrId) answered.  It is awaited outside the
\* try block: its error leaves the task.
RespOGetAttributes(o) ==
  /\ Answered(o, "oGetAttributes")
  /\ LET r == ops[o]
     IN  \E ok \in BOOLEAN :
           /\ Answer(ok)
           /\ IF ~ok THEN Step(o, End(r, "escaped"), FALSE)
              ELSE Step(o, [r EXCEPT !.flag = ReadFlag(o),
                                     !.pc = "getBlacklistSnapshot"], FALSE)
  /\ UNCHANGED <<local, locks, remote, blacklist, hist>>

\* lines 159-186: the snapshot of the bot's blacklist is there; the number
\* is removed when the flag says so; then the relay.  (The blacklist is the
\* bot's in-memory collaborator: its operations do not fail here.)
RespGetBlacklistSnapshot(o) ==
  /\ At(o, "getBlacklistSnapshot")
  /\ LET r == ops[o]
         s == [r EXCEPT !.inSnap = (r.phone \in blacklist)]
     IN  IF ShouldRemove(s.flag, s.inSnap)
           THEN Step(o, [s EXCEPT !.pc = "removeFromBlacklist"], FALSE)
           ELSE Step(o, BeginRelay(s), TRUE)
  /\ UNCHANGED <<local, locks, remote, blacklist, faults, hist>>

\* line 165: removeFromBlacklist(numberOrId) done, the relay begins.
RemoveFromBlacklist(o) ==
  /\ At(o, "removeFromBlacklist")
  /\ blacklist' = blacklist \ {ops[o].phone}
  /\ Step(o, BeginRelay([ops[o] EXCEPT !.removed = TRUE]), TRUE)
  /\ UNCHANGED <<local, locks, remote, faults, hist>>

\* ------------------------------------------------------------ environment
\* An operator of the CRM sets the flag of a contact.
OperatorSetFlag(p, v) ==
  /\ contacts[p] \notin {"none", v}
  /\ contacts' = [contacts EXCEPT ![p] = v]
  /\ UNCHANGED <<initPc, ops, dq, running, rq, inflight, locks, convs,
                 attrDefined, blacklist, lastStatus, faults, hist>>

\* ------------------------------------------------------------------ system
\* The steps of ChatwootClient.sendNotes, but for the two that follow a wait
\* on the lock.
SendNotesStep(o) ==
  \/ RespGetUserID(o)
  \/ RespCreateContact(o)
  \/ AfterCreatePause(o)
  \/ RespGetAttributes(o)
  \/ RespSetGetUserID(o)
  \/ RespSetPut(o)
  \/ RespGetConversationID(o)
  \/ RespCreateNewConversation(o)
  \/ RespPostMessage(o)

\* The steps of sendNotes after it found the lock taken and saw it released.
\* The tasks of BotWrapper.queue run one after the other, so a task finds the
\* lock taken only when an earlier one ended holding it, and then it is
\* never released: these steps belong to callers that overlap.
LockWaitStep(o) ==
  \/ LockReleasedSeen(o)
  \/ RespGetConversationID2(o)

\* The steps the bridge takes by itself once an event has arrived.
System ==
  \/ RespIsAttributeCreated
  \/ RespCreateAttributes
  \/ StartTask
  \/ IssueRequest
  \/ \E o \in OpIds :
       \/ SendNotesStep(o)
       \/ RespAGetUserID(o)
       \/ RespAGetConversationID(o)
       \/ Download(o)
       \/ RespAPostMessage(o)
       \/ RespOGetAttributes(o)
       \/ RespGetBlacklistSnapshot(o)
       \/ RemoveFromBlacklist(o)

Environment ==
  \/ InitializeDirect
  \/ CreateDashboard
  \/ Webhook
  \/ \E p \in Phones, m \in BOOLEAN : ProviderMessage(p, m)
  \/ \E p \in Phones, m \in BOOLEAN : BotSendMessage(p, m)
  \/ \E p \in Phones, v \in {"On", "Off"} : OperatorSetFlag(p, v)

\* The bridge: events of the bot, handled through BotWrapper.queue.
Next == System \/ Environment

Spec == Init /\ [][Next]_vars

\* Every remote call returns, every timer fires, both queues keep working.
FairSpec == Spec /\ WF_vars(System)

\* The client on its own starts with nothing of the bridge going on.
ClientInit ==
  /\ Init
  /\ attrDefined
  /\ blacklist = {}

\* The client on its own: sendMessageWithAttachments called with lists of
\* file URLs.
AttachNext ==
  \/ \E p \in Phones, n \in 0..MaxFiles :
       DirectSendMessageWithAttachments(p, n)
  \/ IssueRequest
  \/ \E o \in OpIds :
       \/ RespAGetUserID(o)
       \/ RespAGetConversationID(o)
       \/ Download(o)
       \/ RespAPostMessage(o)

AttachSpec == ClientInit /\ [][AttachNext]_vars

\* The client on its own: sendNotes called by several callers at once.
ClientNext ==
  \/ \E p \in Phones : DirectSendNotes(p)
  \/ IssueRequest
  \/ \E o \in OpIds : SendNotesStep(o) \/ LockWaitStep(o)

ClientSpec == ClientInit /\ [][ClientNext]_vars

\* =================================================================== claims
TaskStarted(o) == ops[o].pc # "queued"
Executing(o) == ops[o].pc \notin {"queued", "end"}
Tasks == {o \in Live : IsTask(o)}
AllEnded == Live # {} /\ \A o \in Live : Ended(o)

\* C1: BotWrapper.queue runs its tasks in enqueue order, one at a time: a
\* task has begun only if every task enqueued before it has ended (done or
\* failed), whichever event source produced them.
C1_EnqueueOrderOneInFlight ==
  /\ \A i, j \in Tasks : (i < j /\ TaskStarted(j)) => Ended(i)
  /\ Cardinality({o \in Tasks : Executing(o)}) <= 1
  /\ running # None => (running \in Tasks /\ Executing(running))

\* A failed inbound task was followed by an outbound task, now executing.
C1_Witness ==
  \E i, j \in Tasks :
    /\ i < j
    /\ ops[i].kind = "in" /\ ops[i].result = "failed"
    /\ ops[j].kind = "out" /\ Executing(j) /\ running = j

\* C2: however the sendNotes calls for a phone number interleave, at most one
\* conversation-creation request is issued for it, and when the number had
\* no conversation and every call has returned without a failure of the
\* remote's, exactly one was issued.
HadNoConversation(p) ==
  \A i \in 1..Len(convs[p]) : convs[p][i].conversation_id > NumPhones

C2_OneConversationCreation ==
  \A p \in Phones :
    /\ hist.convReqs[p] <= 1
    /\ Len(convs[p]) <= 1
    /\ (/\ AllEnded
        /\ faults = 0
        /\ HadNoConversation(p)
        /\ \E o \in Live : ops[o].phone = p)
       => hist.convReqs[p] = 1

\* C3: when sendNotes calls for the same brand-new number have all returned
\* (and the remote failed none of their requests for a reason of its own),
\* each of them has posted its message, all to the same conversation.
C3_AllPostToSameConversation ==
  (AllEnded /\ faults = 0) =>
    \A a, b \in Live :
      (ops[a].phone = ops[b].phone /\ ops[a].sawNew /\ ops[b].sawNew)
        => (ops[a].posted # None /\ ops[a].posted = ops[b].posted)

\* C4: for a never-before-seen number at most one contact-creation request
\* is issued, however many sendNotes calls run (no request having failed for
\* a reason of the remote's).
C4_AtMostOneContactCreation ==
  faults = 0 => \A p \in Phones : hist.contactReqs[p] <= 1

\* C5: the per-phone lock is held only while the sendNotes call that took it
\* is still running.
C5_LockNotHeldAfterOwnerEnds ==
  \A p \in Phones :
    locks[p] => (hist.owner[p] \in Live /\ ~Ended(hist.owner[p]))

\* C6: with every remote call returning, every task enqueued on
\* BotWrapper.queue eventually ends (done or failed).
C6_EveryTaskEnds ==
  \A o \in 1..MaxOps : (o \in Live) ~> (o \in Live /\ Ended(o))

\* C7: an outbound task that read the flag as "Off" ends with the number in
\* the blacklist.
C7_OffBlacklists ==
  \A o \in Live :
    (ops[o].kind = "out" /\ ops[o].flag = "Off" /\ Ended(o))
      => ops[o].phone \in blacklist

\* C8: an outbound task that read the flag as "Off" issues no
\* message-creation request.
C8_OffIssuesNoMessage ==
  \A o \in Live :
    (ops[o].kind = "out" /\ ops[o].flag = "Off") => ops[o].msgReqs = 0

\* C9: an outbound task that read the flag as "On" and has the snapshot:
\* its relay begins only after the removal when the number was in the
\* snapshot, and without any removal when it was not; nothing else stands
\* between the snapshot and the relay.
SnapshotRead(o) ==
  ops[o].kind = "out" /\
  ops[o].pc \notin {"queued", "oGetAttributes", "getBlacklistSnapshot"} /\
  ops[o].result # "escaped"

C10_BlacklistFrame ==
  [][blacklist' # blacklist =>
       \E o \in Live :
         /\ running = o
         /\ ops[o].kind = "out"
         /\ ops[o].flag = "On"
         /\ blacklist' = blacklist \ {ops[o].phone}]_vars

\* An outbound task that read no "On" ended with its number still
\* blacklisted; a later one read "On" and removed it.
C10_Witness ==
  \E a, b \in Live :
    /\ a < b
    /\ ops[a].kind = "out" /\ ops[a].flag # "On" /\ ops[a].inSnap /\ Ended(a)
    /\ ops[b].kind = "out" /\ ops[b].flag = "On" /\ ops[b].removed
    /\ lastStatus = 200 /\ initPc = "done"

\* C11: a message-creation request, of sendNotes or of
\* sendMessageWithAttachments, inbound or outbound, is made only with a
\* resolved conversation: one of the contact's in the configured inbox.
InboxConversations(p) ==
  {convs[p][i].conversation_id :
     i \in {j \in 1..Len(convs[p]) : convs[p][j].inbox_id = InboxID}}

C11_RelayToResolvedConversation ==
  \A o \in Live :
    ops[o].msgReqs > 0 =>
      (ops[o].conv # None /\ ops[o].conv \in InboxConversations(ops[o].phone))

C13_EmptyConfigRefused ==
  hist.config = "empty" =>
    /\ initPc = "refused"
    /\ ops = <<>> /\ dq = <<>>
    /\ rq = <<>> /\ inflight = None
    /\ lastStatus = 0

\* C14: every error raised while a queued event is processed, the
\* feature-flag read of an outbound task included, is caught inside the
\* task: no task ends by throwing to BotWrapper.queue.
C14_NoErrorEscapesTask ==
  \A o \in Tasks : ops[o].result # "escaped"

\* C15: sendMessageWithAttachments skips a file whose extension cannot be
\* inferred, that file only: once every file is downloaded the message
\* request is made, and the form carries exactly the files whose extension
\* was found, in the order of fileUrls.
RECURSIVE Kept(_, _)
Kept(exts, i) ==
  IF i > Len(exts) THEN <<>>
  ELSE (IF exts[i] THEN <<i>> ELSE <<>>) \o Kept(exts, i + 1)

C15_SkipsOnlyUninferred ==
  \A o \in Live :
    ops[o].files > 0 =>
      /\ ops[o].atts = Kept(ops[o].exts, 1)
      /\ Len(ops[o].exts) = ops[o].files => ops[o].msgReqs = 1

C15_Witness ==
  \E o \in Live :
    /\ ops[o].result = "ok"
    /\ \E i, j \in 1..Len(ops[o].exts) :
         i < j /\ ~ops[o].exts[i] /\ ops[o].exts[j]

\* C16: a sendNotes call that created the contact reaches the conversation
\* lookup in one of two ways only: from its PUT, which leaves the flag "On",
\* when its flag read found none; or straight from the flag read when that
\* found a value, which the step leaves as it is.  Until then the call has
\* resolved no conversation and requested no message.
FirstContactPcs ==
  {"createContact", "sleep", "getAttributes", "setGetUserID", "setPut"}

C17_LookupRestrictedToInbox ==
  \A o \in Live :
    /\ ops[o].lookup = "id"
         => /\ ops[o].createReqs = 0 /\ ~ops[o].waited
            /\ hist.owner[ops[o].phone] # o
    /\ ops[o].lookup \in {"false", "throw"}
         => ops[o].createReqs = 1 \/ ops[o].waited

\* The requests waiting in ChatwootClient.queue or in flight, and those of
\* them that change the remote: contact create, attribute update,
\* attribute-definition create, conversation create, message create.
Pending == {rq[i] : i \in 1..Len(rq)} \cup ({inflight} \ {None})

MutatingPcs ==
  {"createContact", "setPut", "createNewConversation", "postMessage",
   "aPostMessage"}

Mutating(x) ==
  IF x = InitOp THEN initPc = "createAttributes"
  ELSE ops[x].pc \in MutatingPcs

\* C18, as claimed: every pending request that changes the remote belongs to
\* the task BotWrapper.queue is running, the attribute-definition creation
\* of initialize included.
C18_NoMutationOutsideTask ==
  \A x \in Pending : Mutating(x) => (x \in Tasks /\ x = running)

\* C18, amended: the requests of events are all made by the one task
\* BotWrapper.queue is running, so the requests of two events never
\* interleave; the only other requests are those of initialize's
\* checkAndCreateAttribute, which is not queued and may have its
\* attribute-definition request pending next to a task's.
C18_TaskRequestsSerialized ==
  /\ \A o \in Tasks : Executing(o) => o = running
  /\ \A x \in Pending : x = InitOp \/ (x \in Tasks /\ x = running)
  /\ Cardinality(Pending) <= 2

C18_Witness ==
  /\ initPc = "createAttributes"
  /\ InitOp \in Pending
  /\ \E o \in Tasks : o = running /\ o \in Pending /\ Mutating(o)

\* C19: no retry.  When a request or a download of an event fails, the
\* event ends there with the error (logged by the task, or thrown by it);
\* an event that has ended never changes again, is never put back on
\* BotWrapper.queue and makes no further request; and no event makes more
\* than one message-creation request.
C19_NoRetry ==
  [][\A o \in Live :
       LET r == ops[o]
           r2 == ops'[o]
       IN  /\ (faults' > faults /\ (inflight = o \/ r2 # r))
                => /\ r2.pc = "end"
                   /\ r2.result \in {"failed", "rejected", "escaped"}
           /\ Ended(o)
                => /\ r2 = r
                   /\ o \notin Pending'
                   /\ \A i \in 1..Len(dq') : dq'[i] # o
           /\ r2.msgReqs <= 1]_vars

C19_Witness ==
  \E a, b \in Tasks :
    /\ a < b
    /\ faults > 0
    /\ ops[a].result = "failed" /\ ops[a].msgReqs = 1 /\ ops[a].posted = None
    /\ ops[b].result = "ok"

\* C20: an outbound task is in its relay (contact search, conversation
\* lookup or creation, download, message creation) only after its own flag
\* read was answered; and the value a task holds is the one the remote had
\* when that task's read was answered, whatever an earlier task read.
BeforeRelayPcs ==
  {"queued", "oGetAttributes", "getBlacklistSnapshot", "removeFromBlacklist"}

C20_FlagReadFirstAndFresh ==
  [][\A o \in Live :
       LET r == ops[o]
           r2 == ops'[o]
       IN  r.kind = "out" =>
             /\ (r2.relayed \/ r2.pc \notin BeforeRelayPcs \cup {"end"})
                  => (r2.relayed /\ r2.flag # "unread")
             /\ (r2.pc \in BeforeRelayPcs \/ r2.flag = "unread")
                  => (r2.msgReqs = 0 /\ r2.createReqs = 0 /\ ~r2.sawNew)
             /\ (r.flag = "unread" /\ r2.flag # "unread")
                  => /\ inflight = o /\ r.pc = "oGetAttributes"
                     /\ r2.flag = GetAttributes(contacts[r.phone])
             /\ r.flag # "unread" => r2.flag = r.flag]_vars

C20_Witness ==
  \E a, b \in Tasks :
    /\ a < b
    /\ ops[a].kind = "out" /\ ops[b].kind = "out"
    /\ ops[a].phone = ops[b].phone
    /\ ops[a].posted # None /\ ops[b].posted # None
    /\ ops[a].flag # "unread" /\ ops[b].flag # "unread"
    /\ ops[a].flag # ops[b].flag

\* C21: a sendNotes call whose lookup finds no conversation while the lock
\* of the number is held waits, and a call that waited never requests a
\* conversation creation nor owns the lock; it leaves the wait only when the
\* lock is free, and then only to redo the lookup; the conversation it goes
\* on with is what that second lookup gave from the remote as it is then.
C21_WaiterNeverCreates ==
  [][\A o \in Live :
       LET r == ops[o]
           r2 == ops'[o]
       IN  /\ (r.pc = "getConversationID" /\ r2.lookup = "false"
                 /\ locks[r.phone])
                => (r2.pc = "waitLock" /\ r2.waited)
           /\ r2.waited
                => (r2.createReqs = 0 /\ hist'.owner[r.phone] # o)
           /\ (r.pc = "waitLock" /\ r2.pc # "waitLock")
                => (~locks[r.phone] /\ r2.pc = "getConversationID2")
           /\ (r.pc = "getConversationID2" /\ r2.pc = "postMessage")
                => r2.conv = GetConversationID(convs[r.userID]).id]_vars

C21_Witness ==
  \E a, b \in Live :
    /\ a # b /\ ops[a].phone = ops[b].phone
    /\ ops[a].createReqs = 1 /\ ops[a].conv # None
    /\ ops[b].waited /\ ops[b].msgReqs = 1 /\ ops[b].createReqs = 0

\* C22: whenever sendNotes has made its message-creation request, the
\* conversation of the request is an id a lookup or the creation returned,
\* never the "not found" value, on the path that waited for the lock too.
C22_NeverPostsToFalse ==
  \A o \in Live :
    (~ops[o].media /\ ops[o].msgReqs > 0) => ops[o].conv # None

\* The positions at which a call has no request outstanding: not begun, in
\* a timer, in a download (made outside ChatwootClient.queue), in the bot's
\* blacklist, or ended.  At every other position it awaits one _request.
NoRequestPcs ==
  {"queued", "sleep", "waitLock", "download", "getBlacklistSnapshot",
   "removeFromBlacklist", "end"}

Occurrences(q, x) == Cardinality({i \in 1..Len(q) : q[i] = x})

\* C23: every request of every caller goes through the one queue of
\* ChatwootClient.  A request is put in flight only when none is, and it is
\* the oldest one waiting; requests join at the tail and leave at the head
\* only, so they are issued in the order _request was called.  A call
\* awaiting a request has exactly that one request waiting or in flight, and
\* goes on (resolved) or ends (rejected) only in the step that answers it,
\* which frees the queue.  A failure removes nothing from the queue, and
\* whenever nothing is in flight and a request waits, it can be issued.
C23_OneSharedRequestQueue ==
  [][/\ (inflight' # inflight /\ inflight' # None)
          => /\ inflight = None /\ rq # <<>>
             /\ inflight' = Head(rq) /\ rq' = Tail(rq)
     /\ (inflight' = inflight \/ inflight' = None)
          => \/ rq' = rq
             \/ /\ Len(rq') = Len(rq) + 1
                /\ SubSeq(rq', 1, Len(rq)) = rq
     /\ \A o \in Live :
          LET r == ops[o]
              r2 == ops'[o]
          IN  /\ Occurrences(rq, o) + (IF inflight = o THEN 1 ELSE 0)
                   = (IF r.pc \in NoRequestPcs THEN 0 ELSE 1)
              /\ (r.pc \notin NoRequestPcs /\ r2 # r)
                   => (inflight = o /\ inflight' = None)
              /\ (inflight = o /\ inflight' # o) => r2 # r
     /\ (inflight = None /\ rq # <<>>) => ENABLED IssueRequest]_vars

C23_Witness ==
  \E a, b \in Live :
    /\ a # b
    /\ faults > 0 /\ ops[a].result = "rejected"
    /\ inflight = b
    /\ rq # <<>>

====
